---- MODULE Spec2Model ----
(***************************************************************************)
(* Backend-access layer of the site: the memoized Directus client          *)
(* (getBackendClient, isDirectusClient), the site configuration fetcher    *)
(* (getSiteConfig) and the page fetcher (getPage).                         *)
(*                                                                         *)
(* JavaScript runs each async function synchronously up to its first       *)
(* await; a pending await is resumed later, one continuation at a time.    *)
(* Every action below is one such uninterrupted run of code.               *)
(***************************************************************************)
EXTENDS Integers, Sequences, FiniteSets, TLC

VARIABLES
    client,     \* module-level `let client`: 0 is undefined, else an index of made
    made,       \* the clients createDirectus has constructed, in order
    inv,        \* the invocations of the exported async functions, in call order
    duck        \* one evaluation of isDirectusClient: its argument and outcome

vars == <<client, made, inv, duck>>

----------------------------------------------------------------------------
(* Bounds of the model                                                     *)

MaxInv == 2         \* invocations started in one run
MaxSlugLen == 2     \* characters of a slug in the page-query specification
MaxPages == 2       \* length of a page list the backend returns

----------------------------------------------------------------------------
(* JavaScript values                                                       *)

ABSENT == "<absent>"          \* the object has no such key
UNDEFINED == "<undefined>"    \* the key holds undefined
NULL == "<null>"              \* the key holds null

Range(s) == {s[k] : k \in 1..Len(s)}

----------------------------------------------------------------------------
(* Environment-derived configuration                                       *)

API_URL == "http://localhost:8055"
API_USERNAME == "admin"
API_PASSWORD == "password"

NOT_PASSED == "<not passed>"  \* an argument the caller did not pass

\* a default parameter (name = DEFAULT) takes the default when not passed
DefaultArg(given, dflt) == IF given = NOT_PASSED THEN dflt ELSE given

CLIENT_PROPS ==
    <<"globals", "url", "with", "refresh", "login", "logout",
      "stopRefreshing", "getToken", "setToken", "request", "query">>

----------------------------------------------------------------------------
(* Client Provider: getBackendClient                                       *)

\* `!client`: the singleton holds no client yet
IsUnsetAlways(c) == TRUE
IsUnset(c) == c = 0

\* createDirectus(API_URL)...: the url the client is constructed for
ConstructUrl(apiUrl) == API_URL

\* client.login(API_USERNAME, API_PASSWORD): the credentials of the login
LoginUser(apiUsername) == API_USERNAME
LoginPass(apiPassword) == API_PASSWORD

\* the client built and the login started on it by one invocation
NewClient(apiUsername, apiPassword, apiUrl) ==
    [url |-> ConstructUrl(apiUrl),
     user |-> LoginUser(apiUsername),
     pass |-> LoginPass(apiPassword),
     login |-> "pending"]

\* the singleton after the catch block of a rejected login: the catch block
\* throws and assigns nothing
ClientAfterRejectReset(c) == 0
ClientAfterReject(c) == c

----------------------------------------------------------------------------
(* Backend responses to the GraphQL queries                                *)

SiteFields ==
    {"title", "description", "navbar_config", "service_mode", "date_updated",
     "maintenance_page_title", "maintenance_page_body"}

EmptyObject == [k \in SiteFields |-> ABSENT]       \* {}

\* obj[key] of JavaScript: a missing key reads as undefined
Get(obj, key) == IF obj[key] = ABSENT THEN UNDEFINED ELSE obj[key]

NoGlobal == [kind |-> "absent", f |-> EmptyObject]
NullGlobal == [kind |-> "null", f |-> EmptyObject]
ObjGlobal(f) == [kind |-> "object", f |-> f]

\* the record the backend holds for the site-config selection set
SiteGlobal(mode) ==
    [k \in SiteFields |->
        CASE k = "title" -> "LigerBots"
          [] k = "description" -> "FRC team 2877"
          [] k = "navbar_config" -> "[]"
          [] k = "service_mode" -> mode
          [] k = "date_updated" -> "2024-01-01"
          [] OTHER -> ABSENT]

\* the record the backend holds for the maintenance selection set
MaintGlobal(title, body) ==
    [k \in SiteFields |->
        CASE k = "maintenance_page_title" -> title
          [] k = "maintenance_page_body" -> body
          [] OTHER -> ABSENT]

ServiceModes == {"normal", "maintenance", NULL, ABSENT}

NoResp == [state |-> "none", obj |-> FALSE, global |-> NoGlobal]
Resolved(obj, g) == [state |-> "resolved", obj |-> obj, global |-> g]
Rejected == [state |-> "rejected", obj |-> FALSE, global |-> NoGlobal]

\* what client.query(SITE_CONFIG_QUERY) may resolve with
SiteResponses ==
    {Resolved(FALSE, NoGlobal), Resolved(TRUE, NoGlobal), Resolved(TRUE, NullGlobal)}
    \cup {Resolved(TRUE, ObjGlobal(SiteGlobal(m))) : m \in ServiceModes}

\* what client.query(MAINTENANCE_MODE_QUERY) may resolve with
MaintResponses ==
    {Resolved(FALSE, NoGlobal), Resolved(TRUE, NoGlobal), Resolved(TRUE, NullGlobal),
     Resolved(TRUE, ObjGlobal(MaintGlobal("Down", "Back soon"))),
     Resolved(TRUE, ObjGlobal(MaintGlobal(NULL, NULL)))}

\* `resp?.global` as a condition
HasGlobal(resp) == resp.obj /\ resp.global.kind = "object"

PageFields == {"slug", "title", "script", "content", "style"}

PageRec(slug, title) ==
    [k \in PageFields |->
        CASE k = "slug" -> slug
          [] k = "title" -> title
          [] k = "script" -> NULL
          [] k = "content" -> "<p>" 
          [] k = "style" -> NULL]

Pages == {PageRec("about", "About"), PageRec("about", "About (draft)")}

UndefinedValue == [def |-> FALSE, rec |-> [k \in PageFields |-> ABSENT]]
ObjectValue(rec) == [def |-> TRUE, rec |-> rec]

SeqsUpTo(S, n) == UNION {[1..m -> S] : m \in 0..n}

NoPageResp == [state |-> "none", obj |-> FALSE, hasPage |-> FALSE, page |-> <<>>]
PageResolved(obj, has, list) ==
    [state |-> "resolved", obj |-> obj, hasPage |-> has, page |-> list]
PageRejected == [state |-> "rejected", obj |-> FALSE, hasPage |-> FALSE, page |-> <<>>]

\* what client.query(query) may resolve with in getPage
PageResponses ==
    {PageResolved(FALSE, FALSE, <<>>), PageResolved(TRUE, FALSE, <<>>)}
    \cup {PageResolved(TRUE, TRUE, l) : l \in SeqsUpTo(Pages, MaxPages)}

----------------------------------------------------------------------------
(* String operations of getPage                                            *)

PLACEHOLDER == <<"{", "{", "s", "l", "u", "g", "}", "}">>

PAGE_QUERY ==
    <<"{", "\n",
       " ", " ", "p", "a", "g", "e", "(", "f", "i", "l", "t", "e", "r", ":", " ", "{", " ", "s", "l", "u", "g", ":", " ", "{", " ", "_", "e", "q", ":", " ", "\"", "{", "{", "s", "l", "u", "g", "}", "}", "\"", " ", "}", " ", "}", ")", " ", "{", "\n",
       " ", " ", " ", " ", " ", " ", "s", "l", "u", "g", "\n",
       " ", " ", " ", " ", " ", " ", "t", "i", "t", "l", "e", "\n",
       " ", " ", " ", " ", " ", " ", "s", "c", "r", "i", "p", "t", "\n",
       " ", " ", " ", " ", " ", " ", "c", "o", "n", "t", "e", "n", "t", "\n",
       " ", " ", " ", " ", " ", " ", "s", "t", "y", "l", "e", "\n",
       " ", " ", "}", "\n",
       "}">>

\* str.indexOf(pat) + 1: the 1-based position of the first occurrence, 0 if none
IndexOf(str, pat) ==
    LET hits == {k \in 1..(Len(str) - Len(pat) + 1) :
                    SubSeq(str, k, k + Len(pat) - 1) = pat}
    IN IF hits = {} THEN 0 ELSE CHOOSE k \in hits : \A h \in hits : k <= h

\* the characters U+0060 and U+0027, named because a TLA+ string cannot
\* hold them reliably
BACKTICK == "<backtick>"
APOSTROPHE == "<apostrophe>"

\* GetSubstitution of String.prototype.replace for a string pattern (no
\* captures): in the replacement text, a dollar sign followed by a dollar
\* sign is one dollar sign, followed by an ampersand the matched text,
\* followed by a backtick the text before the match, followed by an
\* apostrophe the text after it; any other character, a dollar sign
\* included, stands for itself
RECURSIVE GetSubstitution(_, _, _, _)
GetSubstitution(rep, matched, before, after) ==
    IF rep = <<>> THEN <<>>
    ELSE IF Head(rep) = "$" /\ Len(rep) >= 2 /\ rep[2] \in {"$", "&", BACKTICK, APOSTROPHE}
    THEN (CASE rep[2] = "$" -> <<"$">>
            [] rep[2] = "&" -> matched
            [] rep[2] = BACKTICK -> before
            [] rep[2] = APOSTROPHE -> after)
         \o GetSubstitution(SubSeq(rep, 3, Len(rep)), matched, before, after)
    ELSE <<Head(rep)>> \o GetSubstitution(Tail(rep), matched, before, after)

\* query.replace('{{slug}}', slug): String.prototype.replace with a string
\* pattern replaces the first occurrence by the expanded replacement text
Replace(str, pat, rep) ==
    LET k == IndexOf(str, pat)
        before == SubSeq(str, 1, k - 1)
        after == SubSeq(str, k + Len(pat), Len(str))
    IN IF k = 0 THEN str
       ELSE before \o GetSubstitution(rep, pat, before, after) \o after

\* resp.page.shift(): the first element (undefined for an empty list)
ShiftLast(list) == IF list = <<>> THEN UndefinedValue ELSE ObjectValue(list[Len(list)])
Shift(list) == IF list = <<>> THEN UndefinedValue ELSE ObjectValue(Head(list))

\* the list resp.page after shift(): its first element is removed
AfterShift(list) == IF list = <<>> THEN <<>> ELSE Tail(list)

----------------------------------------------------------------------------
(* Capability check: isDirectusClient                                      *)

\* typeof x
TypeOf(x) == IF x.type = "null" THEN "object" ELSE x.type

\* typeof client === 'object' && CLIENT_PROPS.every(prop => prop in client);
\* `prop in null` throws a TypeError
isDirectusClient(x) ==
    IF TypeOf(x) = "object"
    THEN IF x.type = "null" THEN "TypeError"
         ELSE IF \A k \in 1..Len(CLIENT_PROPS) : CLIENT_PROPS[k] \in x.props
              THEN "true" ELSE "false"
    ELSE "false"

----------------------------------------------------------------------------
(* Invocations                                                             *)

\* a fresh invocation of an exported async function: its arguments and locals
\*   user, pass, url  the parameters of getBackendClient after defaulting
\*   mine             the client this invocation constructed (0: none)
\*   seen             the client a getBackendClient call had already returned
\*                    when this invocation started (0: none)
\*   gbc, lc          outcome and value of its getBackendClient call
\*   out              outcome of the invocation itself
\*   sent             the queries it passed to client.query, in order
\*   slug, tmpl, query  getPage's parameters and its `query` variable
\*   resp, resp2      the outer and the inner `resp` of getSiteConfig
\*   result           getSiteConfig's `result`
\*   presp, page      getPage's `resp` and `result`
\*   plist            the page list as the backend delivered it, before
\*                    shift() removed its first element
Invocation(op, username, password, url, slug, tmpl) ==
    [op |-> op,
     user |-> DefaultArg(username, API_USERNAME),
     pass |-> DefaultArg(password, API_PASSWORD),
     url |-> DefaultArg(url, API_URL),
     pc |-> "start", mine |-> 0,
     seen |-> IF \E j \in 1..Len(inv) : inv[j].gbc = "returned"
              THEN (CHOOSE c \in {inv[j].lc : j \in {h \in 1..Len(inv) : inv[h].gbc = "returned"}} : TRUE)
              ELSE 0,
     gbc |-> "pending", lc |-> 0, out |-> "pending",
     sent |-> <<>>, slug |-> slug, tmpl |-> tmpl, query |-> tmpl,
     resp |-> NoResp, resp2 |-> NoResp, result |-> EmptyObject,
     presp |-> NoPageResp, page |-> UndefinedValue, plist |-> <<>>]

\* `return client` of getBackendClient, seen by the caller: the function
\* itself when called directly, else the `await getBackendClient()` of
\* getSiteConfig or getPage
ReturnClient(r, c) ==
    [r EXCEPT !.gbc = "returned", !.lc = c,
              !.pc = IF r.op = "getBackendClient" THEN "done" ELSE "awaitClient",
              !.out = IF r.op = "getBackendClient" THEN "returned" ELSE "pending"]

\* the Error thrown by getBackendClient's catch block rejects the promise of
\* getBackendClient: that is the outcome of a direct call, while
\* getSiteConfig and getPage, suspended at `await getBackendClient()`, are
\* resumed by the rejection in a later job
ThrowLoginError(r) ==
    [r EXCEPT !.gbc = "raised",
              !.pc = IF r.op = "getBackendClient" THEN "done" ELSE "awaitRethrow",
              !.out = IF r.op = "getBackendClient" THEN "raised" ELSE "pending"]

\* `await getBackendClient()` of getSiteConfig and getPage on a rejected
\* promise: the Error is rethrown outside any try block and rejects the
\* fetcher's promise
RethrowSwallow(r) == [r EXCEPT !.out = "returned", !.pc = "done"]
Rethrow(r) == [r EXCEPT !.out = "raised", !.pc = "done"]

\* getBackendClient up to its first await (or to its return, when the
\* singleton is set), called by a new invocation r
getBackendClient(r) ==
    IF IsUnset(client)
    THEN /\ made' = Append(made, NewClient(r.user, r.pass, r.url))
         /\ client' = Len(made) + 1
         /\ inv' = Append(inv, [r EXCEPT !.pc = "awaitLogin", !.mine = Len(made) + 1])
    ELSE /\ inv' = Append(inv, ReturnClient(r, client))
         /\ UNCHANGED <<client, made>>

Args == {NOT_PASSED, "other"}

CallGetBackendClient(username, password, url) ==
    /\ Len(inv) < MaxInv
    /\ getBackendClient(Invocation("getBackendClient", username, password, url, <<>>, <<>>))
    /\ UNCHANGED duck

CallGetSiteConfig ==
    /\ Len(inv) < MaxInv
    /\ getBackendClient(Invocation("getSiteConfig", NOT_PASSED, NOT_PASSED, NOT_PASSED, <<>>, <<>>))
    /\ UNCHANGED duck

CallGetPage(slug, tmpl) ==
    /\ Len(inv) < MaxInv
    /\ getBackendClient(Invocation("getPage", NOT_PASSED, NOT_PASSED, NOT_PASSED, slug, tmpl))
    /\ UNCHANGED duck

\* client.login resolves: `return client`
LoginResolve(i) ==
    /\ inv[i].pc = "awaitLogin"
    /\ made' = [made EXCEPT ![inv[i].mine].login = "ok"]
    /\ inv' = [inv EXCEPT ![i] = ReturnClient(inv[i], client)]
    /\ UNCHANGED <<client, duck>>

\* client.login rejects: the catch block throws
LoginReject(i) ==
    /\ inv[i].pc = "awaitLogin"
    /\ made' = [made EXCEPT ![inv[i].mine].login = "failed"]
    /\ client' = ClientAfterReject(client)
    /\ inv' = [inv EXCEPT ![i] = ThrowLoginError(inv[i])]
    /\ UNCHANGED duck

\* the fetcher resumes at `await getBackendClient()` with the rejection
ClientRethrow(i) ==
    /\ inv[i].pc = "awaitRethrow"
    /\ inv' = [inv EXCEPT ![i] = Rethrow(inv[i])]
    /\ UNCHANGED <<client, made, duck>>

----------------------------------------------------------------------------
(* Site Config Fetcher: getSiteConfig                                      *)

\* the singleton after a catch block of getSiteConfig or getPage has run:
\* the catch blocks build an Error and throw it, and assign nothing to the
\* client module's variable (which they cannot reach)
ClientAfterQueryErrorReset(c) == 0
ClientAfterQueryError(c) == c

\* resp = await client.query(SITE_CONFIG_QUERY): the query is issued
SiteQuery(i) ==
    /\ inv[i].op = "getSiteConfig" /\ inv[i].pc = "awaitClient"
    /\ inv' = [inv EXCEPT ![i].sent = Append(@, "SITE_CONFIG_QUERY"),
                          ![i].pc = "awaitSiteQuery"]
    /\ UNCHANGED <<client, made, duck>>

\* result = resp.global, or {} when `resp?.global` is falsy
FirstResultDefault(resp) ==
    IF HasGlobal(resp) THEN resp.global.f ELSE SiteGlobal("normal")
FirstResult(resp) == IF HasGlobal(resp) THEN resp.global.f ELSE EmptyObject

\* result.service_mode === 'maintenance'
InMaintenanceLoose(result) == result["service_mode"] # "normal"
InMaintenance(result) == result["service_mode"] = "maintenance"

\* the first query resolves: result is chosen, and either the maintenance
\* query is issued or result is returned
SiteResolve(i, resp) ==
    /\ inv[i].pc = "awaitSiteQuery"
    /\ LET result == FirstResult(resp) IN
       inv' = [inv EXCEPT ![i] =
                 IF InMaintenance(result)
                 THEN [@ EXCEPT !.resp = resp, !.result = result,
                                !.sent = Append(@, "MAINTENANCE_MODE_QUERY"),
                                !.pc = "awaitMaintQuery"]
                 ELSE [@ EXCEPT !.resp = resp, !.result = result,
                                !.out = "returned", !.pc = "done"]]
    /\ UNCHANGED <<client, made, duck>>

\* catch of the first query: throw new Error(errMsg)
SiteCatch(r) == [r EXCEPT !.resp = Rejected, !.out = "raised", !.pc = "done"]

SiteReject(i) ==
    /\ inv[i].pc = "awaitSiteQuery"
    /\ inv' = [inv EXCEPT ![i] = SiteCatch(inv[i])]
    /\ client' = ClientAfterQueryError(client)
    /\ UNCHANGED <<made, duck>>

\* the two assignments under `if (resp?.global)` of the maintenance branch
MergeMaintenance(result, resp) ==
    IF HasGlobal(resp)
    THEN [result EXCEPT
            !["maintenance_page_title"] = Get(resp.global.f, "maintenance_page_title"),
            !["maintenance_page_body"] = Get(resp.global.f, "maintenance_page_body")]
    ELSE result

\* `result = resp.global` makes result and the global of the first response
\* one object: what the merge writes into result is written into the first
\* response (result is {} instead only when that response has no global)
AliasedResponse(first, result) ==
    IF HasGlobal(first) THEN [first EXCEPT !.global.f = result] ELSE first

MaintResolve(i, resp) ==
    /\ inv[i].pc = "awaitMaintQuery"
    /\ inv' = [inv EXCEPT ![i].resp2 = resp,
                          ![i].result = MergeMaintenance(@, resp),
                          ![i].resp = AliasedResponse(@, MergeMaintenance(inv[i].result, resp)),
                          ![i].out = "returned", ![i].pc = "done"]
    /\ UNCHANGED <<client, made, duck>>

\* catch of the maintenance query: throw new Error(errMsg)
MaintCatchPartial(r) == [r EXCEPT !.resp2 = Rejected, !.out = "returned", !.pc = "done"]
MaintCatch(r) == [r EXCEPT !.resp2 = Rejected, !.out = "raised", !.pc = "done"]

MaintReject(i) ==
    /\ inv[i].pc = "awaitMaintQuery"
    /\ inv' = [inv EXCEPT ![i] = MaintCatch(inv[i])]
    /\ client' = ClientAfterQueryError(client)
    /\ UNCHANGED <<made, duck>>

----------------------------------------------------------------------------
(* Page Fetcher: getPage                                                   *)

\* query = query.replace('{{slug}}', slug); client.query(query) is issued
PageQuery(i) ==
    /\ inv[i].op = "getPage" /\ inv[i].pc = "awaitClient"
    /\ inv' = [inv EXCEPT ![i].query = Replace(@, PLACEHOLDER, inv[i].slug),
                          ![i].sent = Append(@, "PAGE_QUERY"),
                          ![i].pc = "awaitPageQuery"]
    /\ UNCHANGED <<client, made, duck>>

\* resp.page.shift() throws a TypeError when resp or resp.page is undefined
ShiftThrowsNever(resp) == FALSE
ShiftThrows(resp) == ~resp.obj \/ ~resp.hasPage

\* catch of getPage: throw new Error(...); result stays unassigned
PageCatchSwallow(r) == [r EXCEPT !.out = "returned", !.pc = "done"]
PageCatch(r) == [r EXCEPT !.out = "raised", !.pc = "done"]

\* the query resolves: result = resp.page.shift() inside the try block; a
\* TypeError of that expression is caught and wrapped like a rejection
PageResolve(i, resp) ==
    /\ inv[i].pc = "awaitPageQuery"
    /\ inv' = [inv EXCEPT ![i] =
                 IF ShiftThrows(resp)
                 THEN PageCatch([@ EXCEPT !.presp = resp])
                 ELSE [@ EXCEPT !.presp = [resp EXCEPT !.page = AfterShift(@)],
                                !.plist = resp.page,
                                !.page = Shift(resp.page),
                                !.out = "returned", !.pc = "done"]]
    /\ client' = IF ShiftThrows(resp) THEN ClientAfterQueryError(client) ELSE client
    /\ UNCHANGED <<made, duck>>

\* the query rejects: throw new Error(...)
PageReject(i) ==
    /\ inv[i].pc = "awaitPageQuery"
    /\ inv' = [inv EXCEPT ![i] = PageCatch([@ EXCEPT !.presp = PageRejected])]
    /\ client' = ClientAfterQueryError(client)
    /\ UNCHANGED <<made, duck>>

----------------------------------------------------------------------------
(* The program                                                             *)

NoDuck == [x |-> [type |-> "undefined", props |-> {}], res |-> "none"]

Init ==
    /\ client = 0
    /\ made = <<>>
    /\ inv = <<>>
    /\ duck = NoDuck

\* slugs and templates of the interleaving specification
Slugs == {<<"a", "b", "o", "u", "t">>}
Templates == {PAGE_QUERY}

Next ==
    \/ \E u \in Args, p \in Args, a \in Args : CallGetBackendClient(u, p, a)
    \/ CallGetSiteConfig
    \/ \E s \in Slugs, t \in Templates : CallGetPage(s, t)
    \/ \E i \in 1..Len(inv) : LoginResolve(i)
    \/ \E i \in 1..Len(inv) : LoginReject(i)
    \/ \E i \in 1..Len(inv) : ClientRethrow(i)
    \/ \E i \in 1..Len(inv) : SiteQuery(i)
    \/ \E i \in 1..Len(inv), resp \in SiteResponses : SiteResolve(i, resp)
    \/ \E i \in 1..Len(inv) : SiteReject(i)
    \/ \E i \in 1..Len(inv), resp \in MaintResponses : MaintResolve(i, resp)
    \/ \E i \in 1..Len(inv) : MaintReject(i)
    \/ \E i \in 1..Len(inv) : PageQuery(i)
    \/ \E i \in 1..Len(inv), resp \in PageResponses : PageResolve(i, resp)
    \/ \E i \in 1..Len(inv) : PageReject(i)

Spec == Init /\ [][Next]_vars

----------------------------------------------------------------------------
(* The page fetcher alone, over many slugs and templates                   *)

SlugChars == {"a", "-", "$", "&", BACKTICK, APOSTROPHE, "\""}
AllSlugs == SeqsUpTo(SlugChars, MaxSlugLen)

AllTemplates ==
    {PAGE_QUERY,
     <<"{", " ", "p", "a", "g", "e", " ", "}">>,
     <<"x">> \o PLACEHOLDER \o <<"y">>,
     PLACEHOLDER \o <<"|">> \o PLACEHOLDER,
     <<"{", "{", "s", "l", "u", "g", "}">> \o PLACEHOLDER}

NextPage ==
    \/ \E s \in AllSlugs, t \in AllTemplates : inv = <<>> /\ CallGetPage(s, t)
    \/ \E i \in 1..Len(inv) : LoginResolve(i)
    \/ \E i \in 1..Len(inv) : LoginReject(i)
    \/ \E i \in 1..Len(inv) : ClientRethrow(i)
    \/ \E i \in 1..Len(inv) : PageQuery(i)
    \/ \E i \in 1..Len(inv), resp \in PageResponses : PageResolve(i, resp)
    \/ \E i \in 1..Len(inv) : PageReject(i)

SpecPage == Init /\ [][NextPage]_vars

----------------------------------------------------------------------------
(* The capability check alone, over many values                            *)

Primitives == {"undefined", "boolean", "number", "string", "bigint", "symbol"}
AllProps == Range(CLIENT_PROPS) \cup {"extra"}

\* a value: its kind and the properties `in` finds on it
DuckInputs ==
    {[type |-> ty, props |-> {}] : ty \in Primitives \cup {"null"}}
    \cup {[type |-> ty, props |-> ps] : ty \in {"object", "function"}, ps \in SUBSET AllProps}

InitDuck ==
    /\ client = 0
    /\ made = <<>>
    /\ inv = <<>>
    /\ \E x \in DuckInputs : duck = [x |-> x, res |-> "none"]

CallIsDirectusClient ==
    /\ duck.res = "none"
    /\ duck' = [duck EXCEPT !.res = isDirectusClient(duck.x)]
    /\ UNCHANGED <<client, made, inv>>

NextDuck == CallIsDirectusClient

SpecDuck == InitDuck /\ [][NextDuck]_vars

----------------------------------------------------------------------------
(* Properties                                                              *)

Invs == 1..Len(inv)

\* a login has failed and none is pending or has succeeded
OnlyFailedLogins ==
    /\ made # <<>>
    /\ \A k \in 1..Len(made) : made[k].login = "failed"

\* a login is pending and none has resolved either way
FirstLoginPending ==
    /\ made # <<>>
    /\ \A k \in 1..Len(made) : made[k].login = "pending"

\* this step starts a new invocation
Starts == Len(inv') = Len(inv) + 1

\* C1: when the login of an invocation rejects, the invocation raises and the
\* singleton does not keep the client of that login; an invocation that
\* starts when every login so far has failed performs a login of its own.
C1_RejectedLoginNotMemoized ==
    [][ /\ \A i \in Invs :
              (inv[i].pc = "awaitLogin" /\ made'[inv[i].mine].login = "failed")
                  => /\ inv'[i].gbc = "raised"
                     /\ client' # inv[i].mine
        /\ (Starts /\ OnlyFailedLogins) => inv'[Len(inv')].mine # 0 ]_vars

\* C2: every client a getBackendClient call has returned is logged in: the
\* login on it has completed successfully.
C2_ReturnedClientLoggedIn ==
    \A i \in Invs : inv[i].gbc = "returned" => made[inv[i].lc].login = "ok"

\* C3: an invocation that starts after a getBackendClient call has returned
\* a client returns that same client and performs no login, whatever its
\* arguments.
C3_MemoizedClientReturned ==
    \A i \in Invs :
        inv[i].seen # 0 =>
            /\ inv[i].mine = 0
            /\ inv[i].gbc = "returned"
            /\ inv[i].lc = inv[i].seen

C3_Witness ==
    \E i \in Invs :
        /\ inv[i].op = "getBackendClient"
        /\ inv[i].seen # 0
        /\ inv[i].user = "other" /\ inv[i].pass = "other" /\ inv[i].url = "other"
        /\ inv[i].gbc = "returned"

\* C4: an invocation that starts while the first login is still pending
\* initiates a login attempt of its own.
C4_ConcurrentCallersEachLogin ==
    [][ (Starts /\ FirstLoginPending) => inv'[Len(inv')].mine # 0 ]_vars

\* C5: at most one client is ever constructed, and the singleton holds
\* nothing or that one client.
C5_AtMostOneClient ==
    /\ Len(made) <= 1
    /\ client \in 0..1

C5_Witness ==
    /\ Len(inv) = 2
    /\ inv[1].gbc = "raised"
    /\ inv[2].op \in {"getSiteConfig", "getPage"}
    /\ inv[2].pc = "done"

HasMaintenanceFields(result) ==
    /\ result["maintenance_page_title"] # ABSENT
    /\ result["maintenance_page_body"] # ABSENT

\* C6: a record getSiteConfig returns has the maintenance fields if and only
\* if its service_mode is "maintenance".
C6_MaintenanceFieldsIffMaintenance ==
    \A i \in Invs :
        (inv[i].op = "getSiteConfig" /\ inv[i].out = "returned")
            => (HasMaintenanceFields(inv[i].result) <=> InMaintenance(inv[i].result))

\* C7 (a getSiteConfig whose getBackendClient call raised is resumed by the
\* rejection in a later job, and ends raised once it has run):
\* getSiteConfig raises and returns nothing when getBackendClient raises,
\* when the site-config query rejects or when the maintenance query rejects;
\* no query follows a raising getBackendClient, and no maintenance query
\* follows a rejected site-config query.
C7_SiteConfigFailsFast ==
    \A i \in Invs :
        inv[i].op = "getSiteConfig" =>
            /\ inv[i].gbc = "raised"
                   => /\ inv[i].out # "returned" /\ inv[i].sent = <<>>
                      /\ inv[i].pc \in {"awaitRethrow", "done"}
                      /\ inv[i].pc = "done" => inv[i].out = "raised"
            /\ inv[i].resp.state = "rejected"
                   => (inv[i].out = "raised" /\ inv[i].sent = <<"SITE_CONFIG_QUERY">>)
            /\ inv[i].resp2.state = "rejected" => inv[i].out = "raised"

C7_Witness ==
    \E i \in Invs :
        /\ inv[i].op = "getSiteConfig"
        /\ inv[i].resp2.state = "rejected"
        /\ inv[i].out = "raised"

HasAllCapabilities(x) == \A k \in 1..Len(CLIENT_PROPS) : CLIENT_PROPS[k] \in x.props

\* C8: isDirectusClient answers true exactly for objects that expose all 11
\* capabilities, and false (never an exception) for null, for primitives and
\* for objects that lack a capability.
C8_DuckTypeIsTotal ==
    duck.res # "none" =>
        duck.res = IF duck.x.type = "object" /\ HasAllCapabilities(duck.x)
                   THEN "true" ELSE "false"

\* C9: when the page query resolves with a page list, getPage returns the
\* first page of the list unchanged, or undefined when the list is empty.
C9_FirstPageReturned ==
    \A i \in Invs :
        (inv[i].op = "getPage" /\ inv[i].presp.state = "resolved"
            /\ inv[i].presp.obj /\ inv[i].presp.hasPage)
        => /\ inv[i].out = "returned"
           /\ inv[i].page = IF inv[i].plist = <<>>
                            THEN UndefinedValue
                            ELSE ObjectValue(inv[i].plist[1])

C9_Witness ==
    \E i \in Invs :
        /\ inv[i].op = "getPage"
        /\ inv[i].out = "returned"
        /\ Len(inv[i].plist) = 2
        /\ inv[i].plist[1] # inv[i].plist[2]
        /\ inv[i].page = ObjectValue(inv[i].plist[1])

\* the template with its first placeholder replaced by the slug, character
\* for character
LiteralReplace(tmpl, slug) ==
    LET k == IndexOf(tmpl, PLACEHOLDER) IN
    IF k = 0 THEN tmpl
    ELSE SubSeq(tmpl, 1, k - 1) \o slug
         \o SubSeq(tmpl, k + Len(PLACEHOLDER), Len(tmpl))

\* C10: the query getPage sends is the template with the first placeholder
\* replaced by the literal text of the slug, for every slug.
C10_LiteralSlugSubstitution ==
    \A i \in Invs :
        (inv[i].op = "getPage" /\ inv[i].sent # <<>>)
            => inv[i].query = LiteralReplace(inv[i].tmpl, inv[i].slug)

\* C11: when the page query rejects, getPage raises, returns no record and
\* has issued its query exactly once.
C11_PageRejectRaisesNoRetry ==
    \A i \in Invs :
        (inv[i].op = "getPage" /\ inv[i].presp.state = "rejected")
            => /\ inv[i].out = "raised"
               /\ inv[i].page = UndefinedValue
               /\ inv[i].sent = <<"PAGE_QUERY">>

C11_Witness ==
    \E i \in Invs :
        /\ inv[i].op = "getPage"
        /\ inv[i].presp.state = "rejected"
        /\ inv[i].pc = "done"

\* C12: the invocation that constructs the client constructs it for its url
\* argument and logs in with its username and password arguments (the
\* environment-derived values standing in for the arguments not passed).
C12_ArgumentsUsed ==
    \A i \in Invs :
        inv[i].mine # 0 =>
            /\ made[inv[i].mine].url = inv[i].url
            /\ made[inv[i].mine].user = inv[i].user
            /\ made[inv[i].mine].pass = inv[i].pass

\* the first response of invocation i asks for the maintenance query
FirstSaysMaintenance(i) ==
    /\ inv[i].resp.state = "resolved"
    /\ HasGlobal(inv[i].resp)
    /\ inv[i].resp.global.f["service_mode"] = "maintenance"

\* C13: getSiteConfig issues the site-config query first and the maintenance
\* query only once the first response has resolved with service_mode
\* "maintenance"; after any other resolved first response exactly one query
\* has been issued; never more than two are.
C13_QueriesSequential ==
    \A i \in Invs :
        inv[i].op = "getSiteConfig" =>
            /\ inv[i].sent \in {<<>>, <<"SITE_CONFIG_QUERY">>,
                                <<"SITE_CONFIG_QUERY", "MAINTENANCE_MODE_QUERY">>}
            /\ Len(inv[i].sent) = 2 <=> FirstSaysMaintenance(i)
            /\ (inv[i].resp.state = "resolved" /\ ~FirstSaysMaintenance(i))
                   => (inv[i].sent = <<"SITE_CONFIG_QUERY">> /\ inv[i].out = "returned")

C13_Witness ==
    /\ \E i \in Invs :
        /\ inv[i].op = "getSiteConfig"
        /\ FirstSaysMaintenance(i)
        /\ inv[i].out = "returned"
    /\ \E i \in Invs :
        /\ inv[i].op = "getSiteConfig"
        /\ inv[i].resp.state = "resolved"
        /\ HasGlobal(inv[i].resp)
        /\ inv[i].resp.global.f["service_mode"] = ABSENT
        /\ inv[i].out = "returned"

\* the first response of invocation i resolved without a "global" field, or
\* with no response object
FirstLacksGlobal(i) ==
    /\ inv[i].resp.state = "resolved"
    /\ (~inv[i].resp.obj \/ inv[i].resp.global.kind = "absent")

\* C14: when the site-config query resolves without a "global" field,
\* getSiteConfig returns an empty record and issues no maintenance query.
C14_MissingGlobalGivesEmptyRecord ==
    \A i \in Invs :
        (inv[i].op = "getSiteConfig" /\ FirstLacksGlobal(i))
            => /\ inv[i].out = "returned"
               /\ inv[i].result = EmptyObject
               /\ inv[i].sent = <<"SITE_CONFIG_QUERY">>

C14_Witness ==
    /\ \E i \in Invs :
        inv[i].op = "getSiteConfig" /\ FirstLacksGlobal(i) /\ ~inv[i].resp.obj
    /\ \E i \in Invs :
        inv[i].op = "getSiteConfig" /\ FirstLacksGlobal(i) /\ inv[i].resp.obj

\* invocation i has resumed past its getBackendClient call
InFetcherBody(i) ==
    inv[i].pc \in {"awaitClient", "awaitRethrow", "awaitSiteQuery", "awaitMaintQuery",
                   "awaitPageQuery"}

\* a query of invocation i rejected or resolved with malformed data
QueryWentWrong(i) ==
    \/ inv[i].resp.state = "rejected"
    \/ inv[i].resp2.state = "rejected"
    \/ inv[i].presp.state = "rejected"
    \/ (inv[i].resp.state = "resolved" /\ ~HasGlobal(inv[i].resp))
    \/ (inv[i].resp2.state = "resolved" /\ ~HasGlobal(inv[i].resp2))
    \/ (inv[i].presp.state = "resolved" /\ ~(inv[i].presp.obj /\ inv[i].presp.hasPage))

\* C15: no step of the body of getSiteConfig or getPage changes the
\* singleton or the set of clients, and an invocation that starts after a
\* query went wrong gets the client that query ran on, without a login.
C15_FetchersLeaveSingleton ==
    [][ /\ \A i \in Invs :
              (InFetcherBody(i) /\ inv'[i] # inv[i])
                  => (client' = client /\ made' = made)
        /\ \A i \in Invs :
              (Starts /\ QueryWentWrong(i))
                  => /\ inv'[Len(inv')].gbc = "returned"
                     /\ inv'[Len(inv')].lc = inv[i].lc
                     /\ inv'[Len(inv')].mine = 0
                     /\ made' = made ]_vars

C15_Witness ==
    /\ Len(inv) = 2
    /\ inv[1].op \in {"getSiteConfig", "getPage"}
    /\ inv[1].pc = "done"
    /\ QueryWentWrong(1)
    /\ inv[2].op = "getBackendClient"
    /\ inv[2].seen # 0
    /\ inv[2].gbc = "returned"
    /\ inv[2].lc = inv[1].lc

\* C16: getPage returns undefined only for a page list that is present and
\* empty; when the query resolves without a page list it raises.
C16_UndefinedOnlyForEmptyList ==
    \A i \in Invs :
        inv[i].op = "getPage" =>
            /\ (inv[i].out = "returned" /\ ~inv[i].page.def)
                   => /\ inv[i].presp.state = "resolved"
                      /\ inv[i].presp.obj /\ inv[i].presp.hasPage
                      /\ inv[i].plist = <<>>
            /\ (inv[i].presp.state = "resolved"
                    /\ ~(inv[i].presp.obj /\ inv[i].presp.hasPage))
                   => inv[i].out = "raised"

C16_Witness ==
    /\ \E i \in Invs :
        /\ inv[i].op = "getPage" /\ inv[i].out = "raised"
        /\ inv[i].presp.state = "resolved" /\ inv[i].presp.obj /\ ~inv[i].presp.hasPage
    /\ \E i \in Invs :
        /\ inv[i].op = "getPage" /\ inv[i].out = "returned" /\ ~inv[i].page.def

====
